---- MODULE Spec2Model ----
(***************************************************************************)
(* imap-cleanup: the range compressor `ranges` and the cleanup workflow    *)
(* `cleanup_emails` of src/main.rs, as state machines.                     *)
(*                                                                         *)
(*   Spec        the workflow: at most two consecutive invocations of      *)
(*               cleanup_emails on one mailbox.                            *)
(*   SpecRanges  the pure function `ranges` applied to bounded inputs.     *)
(***************************************************************************)
EXTENDS Integers, Sequences, FiniteSets

(* ------------------------------ bounds --------------------------------- *)

\* Largest identifier of the model: the stand-in for u32::MAX (TLC's integers
\* are 32-bit signed, so the width is scaled down; arithmetic is % (MaxUid+1)).
MaxUid == 5

\* Longest input sequence handed to `ranges` in SpecRanges.
MaxLen == 3

\* Largest number of messages in the mailbox at the start (MaxMsgs < MaxUid,
\* so no identifier of the workflow reaches the largest identifier).
MaxMsgs == 3

(* ------------------------------ state ---------------------------------- *)

VARIABLES
    \* the server's mailbox: a sequence of messages, the position of a message
    \* is the identifier the session's commands address it by
    mailbox,
    \* cleanup_emails: position in the function body
    pc,
    \* cleanup_emails: the dry_run parameter
    dry_run,
    \* cleanup_emails: the search result as collected, before uids.sort()
    raw,
    \* cleanup_emails: the sorted vector `uids`
    uids,
    \* cleanup_emails: the vector `ranges(&uids)` the for loop iterates over
    rngs,
    \* cleanup_emails: index of the next range of the for loop
    idx,
    \* the commands issued on the session in this invocation, in order
    cmds,
    \* the lines printed on stdout in this invocation, in order
    out,
    \* the mailbox as it was when this invocation began
    mbox0,
    \* summary of the previous invocation (mode "none" when there is none)
    prev,
    \* SpecRanges: the argument of `ranges`
    input,
    \* SpecRanges: the vector `ranges` returned
    output,
    \* SpecRanges: "pending", "returned" or "panicked"
    rstate,
    \* SpecRanges: whether the build checks integer overflow (debug) or wraps
    overflow_checks

wfVars == <<mailbox, pc, dry_run, raw, uids, rngs, idx, cmds, out, mbox0, prev>>
rgVars == <<input, output, rstate, overflow_checks>>
vars == <<mailbox, pc, dry_run, raw, uids, rngs, idx, cmds, out, mbox0, prev,
          input, output, rstate, overflow_checks>>

(* --------------------------- helper operators -------------------------- *)

SeqRange(s) == {s[i] : i \in 1..Len(s)}

IsSortedDistinct(s) == \A i \in 1..(Len(s) - 1) : s[i] < s[i + 1]

IsAscending(s) == \A i \in 1..(Len(s) - 1) : s[i] <= s[i + 1]

\* All sequences over S of length at most n.
SeqsUpTo(S, n) == UNION {[1..k -> S] : k \in 0..n}

(* ------------------------------ ranges --------------------------------- *)

\* Option<u32>: None is <<>>, Some(v) is <<v>>.
None == <<>>
Some(v) == <<v>>

\* `previous + 1` on u32 in a build without overflow checks.
Add1(p) == (p + 1) % (MaxUid + 1)

\* The initial captured state of the group_by closure.
Closure0 == [previous |-> None, start |-> None]

\* Mutant: the first match arm is missing, a gap never starts a new run.
KeyFnNoSplit(st, x) ==
    [previous |-> Some(x),
     start |-> IF st.previous = None THEN Some(x) ELSE st.start]

\* Mutant: `previous` is never updated, every element starts a new run.
KeyFnNoPrevious(st, x) ==
    [previous |-> None, start |-> Some(x)]

\* One call of the group_by closure on element x: the captured state after
\* the call; the key returned is the new `start`.
KeyFn(st, x) ==
    [previous |-> Some(x),
     start |-> IF st.previous = None
                 THEN Some(x)
                 ELSE IF x # Add1(st.previous[1]) THEN Some(x) ELSE st.start]

\* group_by + map + collect: elements are keyed in order; consecutive elements
\* with equal keys form one group, mapped to key.unwrap()..=last element.
\* acc is the vector built so far, keys the key of each group of acc.
RECURSIVE GroupFrom(_, _, _, _, _)
GroupFrom(s, i, st, keys, acc) ==
    IF i > Len(s) THEN acc
    ELSE LET st2 == KeyFn(st, s[i])
             key == st2.start
             n   == Len(acc)
         IN IF n > 0 /\ keys[n] = key
              THEN GroupFrom(s, i + 1, st2, keys,
                             [acc EXCEPT ![n] = [start |-> key[1], end |-> s[i]]])
              ELSE GroupFrom(s, i + 1, st2, Append(keys, key),
                             Append(acc, [start |-> key[1], end |-> s[i]]))

ranges(s) == GroupFrom(s, 1, Closure0, <<>>, <<>>)

\* The captured state of the closure after it has keyed the first n elements.
RECURSIVE ClosureAfter(_, _)
ClosureAfter(s, n) ==
    IF n = 0 THEN Closure0 ELSE KeyFn(ClosureAfter(s, n - 1), s[n])

\* The key (`start`) the closure returns for each element, an Option<u32>.
Keys(s) == [i \in 1..Len(s) |-> ClosureAfter(s, i).start]

\* Mutant: the closure computes `**x + 1` for every element it is handed.
OverflowsCurrent(s) == \E i \in 1..Len(s) : s[i] = MaxUid

\* `previous + 1` is evaluated once for every element that has a predecessor;
\* it overflows when that predecessor is the largest identifier.
Overflows(s) == \E i \in 1..(Len(s) - 1) : s[i] = MaxUid

\* The values a RangeInclusive covers (empty when start > end).
Covered(r) == r.start..r.end

CoveredAll(rs) == UNION {Covered(rs[i]) : i \in 1..Len(rs)}

RECURSIVE SumSizes(_)
SumSizes(rs) ==
    IF rs = <<>> THEN 0
    ELSE (Head(rs).end - Head(rs).start + 1) + SumSizes(Tail(rs))

(* --------------------------- SpecRanges -------------------------------- *)

WfIdle ==
    /\ mailbox = <<>>
    /\ pc = "idle"
    /\ dry_run = FALSE
    /\ raw = <<>>
    /\ uids = <<>>
    /\ rngs = <<>>
    /\ idx = 1
    /\ cmds = <<>>
    /\ out = <<>>
    /\ mbox0 = <<>>
    /\ prev = [mode |-> "none", result |-> "none", raw |-> <<>>, uids |-> <<>>,
               rngs |-> <<>>, cmds |-> <<>>, out |-> <<>>, mbox0 |-> <<>>]

InitRanges ==
    /\ WfIdle
    /\ input \in SeqsUpTo(0..MaxUid, MaxLen)
    /\ output = <<>>
    /\ rstate = "pending"
    /\ overflow_checks \in BOOLEAN

\* ranges(input) returns.
RangesReturn ==
    /\ rstate = "pending"
    /\ ~(overflow_checks /\ Overflows(input))
    /\ output' = ranges(input)
    /\ rstate' = "returned"
    /\ UNCHANGED <<input, overflow_checks>>
    /\ UNCHANGED wfVars

\* ranges(input) panics: `previous + 1` overflows in a build that checks it.
RangesPanic ==
    /\ rstate = "pending"
    /\ overflow_checks /\ Overflows(input)
    /\ rstate' = "panicked"
    /\ UNCHANGED <<input, output, overflow_checks>>
    /\ UNCHANGED wfVars

NextRanges == RangesReturn \/ RangesPanic

SpecRanges == InitRanges /\ [][NextRanges]_vars

(* ------------------------- the mailbox session ------------------------- *)

\* A message: id is its identity (never reused), old is "internal date
\* strictly before the cutoff", flagged is \Flagged (the retention marker),
\* deleted is \Deleted (the deletion mark).
Attr == [old : BOOLEAN, flagged : BOOLEAN, deleted : BOOLEAN]

Mailboxes ==
    UNION {{[i \in 1..n |-> [id |-> i, old |-> f[i].old,
                             flagged |-> f[i].flagged,
                             deleted |-> f[i].deleted]] : f \in [1..n -> Attr]}
           : n \in 0..MaxMsgs}

Ids(mb) == {mb[i].id : i \in 1..Len(mb)}

\* Mutant: the query lacks NOT FLAGGED.
MatchingAnyFlag(mb) == {i \in 1..Len(mb) : mb[i].old}

\* Mutant: the query also excludes the messages that carry \Deleted.
MatchingUndeleted(mb) ==
    {i \in 1..Len(mb) : mb[i].old /\ ~mb[i].flagged /\ ~mb[i].deleted}

\* SEARCH BEFORE <cutoff> NOT FLAGGED: the identifiers of the messages dated
\* before the cutoff that do not carry \Flagged.
Matching(mb) == {i \in 1..Len(mb) : mb[i].old /\ ~mb[i].flagged}

\* The orders in which the set the server returned can be iterated.
Perms(S) ==
    {f \in [1..Cardinality(S) -> S] :
        \A i, j \in 1..Cardinality(S) : i # j => f[i] # f[j]}

RECURSIVE Insert(_, _)
Insert(x, s) ==
    IF s = <<>> THEN <<x>>
    ELSE IF x <= Head(s) THEN <<x>> \o s
    ELSE <<Head(s)>> \o Insert(x, Tail(s))

\* Mutant: the vector is not sorted.
SortNone(s) == s

\* uids.sort()
RECURSIVE Sort(_)
Sort(s) == IF s = <<>> THEN <<>> ELSE Insert(Head(s), Sort(Tail(s)))

\* STORE lo:hi +FLAGS.SILENT (\Deleted)
MarkDeleted(mb, lo, hi) ==
    [i \in 1..Len(mb) |->
        IF lo <= i /\ i <= hi THEN [mb[i] EXCEPT !.deleted = TRUE] ELSE mb[i]]

NotDeleted(m) == ~m.deleted

\* EXPUNGE: every message carrying \Deleted is removed, the rest renumbered.
Expunged(mb) == SelectSeq(mb, NotDeleted)

Cmd(op, lo, hi, ok) == [op |-> op, lo |-> lo, hi |-> hi, ok |-> ok]

\* One printed line per message of a fetched range.
Previews(mb, lo, hi) ==
    [k \in 1..(hi - lo + 1) |-> [kind |-> "preview", msg |-> mb[lo + k - 1].id, n |-> 0]]

\* Mutant: the total printed is the number of ranges.
TotalOfRanges(u, r) == Len(r)

\* uids.len(), the total the final println reports.
Total(u, r) == Len(u)

CountLine(kind, n) == [kind |-> kind, msg |-> 0, n |-> n]

\* Mutant: the branch on dry_run is inverted.
LoopPcInverted(d) == IF d THEN "store" ELSE "fetch"

\* if dry_run { fetch loop } else { store loop }
LoopPc(d) == IF d THEN "fetch" ELSE "store"

NoPrev ==
    [mode |-> "none", result |-> "none", raw |-> <<>>, uids |-> <<>>,
     rngs |-> <<>>, cmds |-> <<>>, out |-> <<>>, mbox0 |-> <<>>]

RgIdle ==
    /\ input = <<>>
    /\ output = <<>>
    /\ rstate = "idle"
    /\ overflow_checks = FALSE

Init ==
    /\ mailbox \in Mailboxes
    /\ pc = "idle"
    /\ dry_run = FALSE
    /\ raw = <<>>
    /\ uids = <<>>
    /\ rngs = <<>>
    /\ idx = 1
    /\ cmds = <<>>
    /\ out = <<>>
    /\ mbox0 = <<>>
    /\ prev = NoPrev
    /\ RgIdle

\* cleanup_emails is invoked: the first time, or once more after the
\* previous invocation has returned.
Start(d) ==
    /\ \/ pc = "idle"
       \/ pc \in {"done", "failed"} /\ prev.mode = "none"
    /\ prev' = IF pc = "idle" THEN prev
               ELSE [mode |-> IF dry_run THEN "dry" ELSE "commit",
                     result |-> pc, raw |-> raw, uids |-> uids, rngs |-> rngs,
                     cmds |-> cmds, out |-> out, mbox0 |-> mbox0]
    /\ dry_run' = d
    /\ pc' = "select"
    /\ raw' = <<>>
    /\ uids' = <<>>
    /\ rngs' = <<>>
    /\ idx' = 1
    /\ cmds' = <<>>
    /\ out' = <<>>
    /\ mbox0' = mailbox
    /\ UNCHANGED mailbox
    /\ UNCHANGED rgVars

\* session.select(mailbox)? succeeds.
SelectOk ==
    /\ pc = "select"
    /\ cmds' = Append(cmds, Cmd("select", 0, 0, TRUE))
    /\ pc' = "search"
    /\ UNCHANGED <<mailbox, dry_run, raw, uids, rngs, idx, out, mbox0, prev>>
    /\ UNCHANGED rgVars

\* Mutant: the error of select is dropped and the function goes on.
SelectErrIgnored ==
    /\ pc = "select"
    /\ cmds' = Append(cmds, Cmd("select", 0, 0, FALSE))
    /\ pc' = "search"
    /\ UNCHANGED <<mailbox, dry_run, raw, uids, rngs, idx, out, mbox0, prev>>
    /\ UNCHANGED rgVars

\* session.select(mailbox)? fails: the function returns the error.
SelectErr ==
    /\ pc = "select"
    /\ cmds' = Append(cmds, Cmd("select", 0, 0, FALSE))
    /\ pc' = "failed"
    /\ UNCHANGED <<mailbox, dry_run, raw, uids, rngs, idx, out, mbox0, prev>>
    /\ UNCHANGED rgVars

\* Mutant: with an empty search result the function prints its total and
\* returns before the branch on dry_run.
SearchOkEarlyReturn ==
    /\ pc = "search"
    /\ \E found \in Perms(Matching(mailbox)) :
         LET u == Sort(found)
             r == ranges(u)
         IN /\ raw' = found
            /\ uids' = u
            /\ rngs' = r
            /\ IF r # <<>>
                 THEN pc' = LoopPc(dry_run) /\ out' = out
                 ELSE /\ pc' = "done"
                      /\ out' = Append(out, CountLine(IF dry_run THEN "not deleted"
                                                      ELSE "deleted", Total(u, r)))
    /\ idx' = 1
    /\ cmds' = Append(cmds, Cmd("search", 0, 0, TRUE))
    /\ UNCHANGED <<mailbox, dry_run, mbox0, prev>>
    /\ UNCHANGED rgVars

\* session.search(..)? succeeds; the result is collected in some order,
\* sorted, and the for loop over ranges(&uids) begins. With no range the loop
\* body never runs: the dry run prints its total and returns, the commit run
\* goes on to expunge.
SearchOk ==
    /\ pc = "search"
    /\ \E found \in Perms(Matching(mailbox)) :
         LET u == Sort(found)
             r == ranges(u)
         IN /\ raw' = found
            /\ uids' = u
            /\ rngs' = r
            /\ IF r # <<>>
                 THEN pc' = LoopPc(dry_run) /\ out' = out
                 ELSE IF dry_run
                        THEN /\ pc' = "done"
                             /\ out' = Append(out, CountLine("not deleted", Total(u, r)))
                        ELSE pc' = "expunge" /\ out' = out
    /\ idx' = 1
    /\ cmds' = Append(cmds, Cmd("search", 0, 0, TRUE))
    /\ UNCHANGED <<mailbox, dry_run, mbox0, prev>>
    /\ UNCHANGED rgVars

\* session.search(..)? fails: the function returns the error.
SearchErr ==
    /\ pc = "search"
    /\ cmds' = Append(cmds, Cmd("search", 0, 0, FALSE))
    /\ pc' = "failed"
    /\ UNCHANGED <<mailbox, dry_run, raw, uids, rngs, idx, out, mbox0, prev>>
    /\ UNCHANGED rgVars

\* Mutant: the expunge is issued after the if/else, in dry runs too.
FetchOkThenExpunge ==
    /\ pc = "fetch"
    /\ LET r == rngs[idx]
       IN /\ cmds' = Append(cmds, Cmd("fetch", r.start, r.end, TRUE))
          /\ out' = out \o Previews(mailbox, r.start, r.end)
    /\ idx' = idx + 1
    /\ pc' = IF idx = Len(rngs) THEN "expunge" ELSE "fetch"
    /\ UNCHANGED <<mailbox, dry_run, raw, uids, rngs, mbox0, prev>>
    /\ UNCHANGED rgVars

\* Dry run, one iteration: session.fetch("start:end", ..)? succeeds and one
\* line per message is printed; after the last range the total is printed
\* and the function returns Ok.
FetchOk ==
    /\ pc = "fetch"
    /\ LET r == rngs[idx]
           lines == Previews(mailbox, r.start, r.end)
       IN /\ cmds' = Append(cmds, Cmd("fetch", r.start, r.end, TRUE))
          /\ out' = IF idx = Len(rngs)
                      THEN Append(out \o lines,
                                  CountLine("not deleted", Total(uids, rngs)))
                      ELSE out \o lines
    /\ idx' = idx + 1
    /\ pc' = IF idx = Len(rngs) THEN "done" ELSE "fetch"
    /\ UNCHANGED <<mailbox, dry_run, raw, uids, rngs, mbox0, prev>>
    /\ UNCHANGED rgVars

\* Dry run, one iteration: session.fetch(..)? fails, the function returns
\* the error; what was printed stays printed.
FetchErr ==
    /\ pc = "fetch"
    /\ LET r == rngs[idx]
       IN cmds' = Append(cmds, Cmd("fetch", r.start, r.end, FALSE))
    /\ pc' = "failed"
    /\ UNCHANGED <<mailbox, dry_run, raw, uids, rngs, idx, out, mbox0, prev>>
    /\ UNCHANGED rgVars

\* Mutant: the loop leaves after its first iteration.
StoreOkOnce ==
    /\ pc = "store"
    /\ LET r == rngs[idx]
       IN /\ cmds' = Append(cmds, Cmd("store", r.start, r.end, TRUE))
          /\ mailbox' = MarkDeleted(mailbox, r.start, r.end)
    /\ idx' = idx + 1
    /\ pc' = "expunge"
    /\ UNCHANGED <<dry_run, raw, uids, rngs, out, mbox0, prev>>
    /\ UNCHANGED rgVars

\* Mutant: the expunge is issued inside the loop, after every store.
StoreOkExpungeInside ==
    /\ pc = "store"
    /\ LET r == rngs[idx]
       IN /\ cmds' = cmds \o <<Cmd("store", r.start, r.end, TRUE),
                                Cmd("expunge", 0, 0, TRUE)>>
          /\ mailbox' = Expunged(MarkDeleted(mailbox, r.start, r.end))
    /\ idx' = idx + 1
    /\ pc' = IF idx = Len(rngs) THEN "expunge" ELSE "store"
    /\ UNCHANGED <<dry_run, raw, uids, rngs, out, mbox0, prev>>
    /\ UNCHANGED rgVars

\* Commit, one iteration: session.store("start:end", +FLAGS.SILENT
\* (\Deleted))? succeeds; after the last range the function goes on to expunge.
StoreOk ==
    /\ pc = "store"
    /\ LET r == rngs[idx]
       IN /\ cmds' = Append(cmds, Cmd("store", r.start, r.end, TRUE))
          /\ mailbox' = MarkDeleted(mailbox, r.start, r.end)
    /\ idx' = idx + 1
    /\ pc' = IF idx = Len(rngs) THEN "expunge" ELSE "store"
    /\ UNCHANGED <<dry_run, raw, uids, rngs, out, mbox0, prev>>
    /\ UNCHANGED rgVars

\* Mutant: the error of store is dropped and the loop goes on.
StoreErrIgnored ==
    /\ pc = "store"
    /\ LET r == rngs[idx]
       IN cmds' = Append(cmds, Cmd("store", r.start, r.end, FALSE))
    /\ idx' = idx + 1
    /\ pc' = IF idx = Len(rngs) THEN "expunge" ELSE "store"
    /\ UNCHANGED <<mailbox, dry_run, raw, uids, rngs, out, mbox0, prev>>
    /\ UNCHANGED rgVars

\* Commit, one iteration: session.store(..)? fails, the function returns the
\* error. The server may or may not have applied the marks of this command
\* before the failure reached the client.
StoreErr ==
    /\ pc = "store"
    /\ LET r == rngs[idx]
       IN /\ cmds' = Append(cmds, Cmd("store", r.start, r.end, FALSE))
          /\ \E applied \in BOOLEAN :
               mailbox' = IF applied THEN MarkDeleted(mailbox, r.start, r.end)
                          ELSE mailbox
    /\ pc' = "failed"
    /\ UNCHANGED <<dry_run, raw, uids, rngs, idx, out, mbox0, prev>>
    /\ UNCHANGED rgVars

\* session.expunge()? succeeds, the total is printed, the function returns Ok.
ExpungeOk ==
    /\ pc = "expunge"
    /\ cmds' = Append(cmds, Cmd("expunge", 0, 0, TRUE))
    /\ mailbox' = Expunged(mailbox)
    /\ out' = Append(out, CountLine("deleted", Total(uids, rngs)))
    /\ pc' = "done"
    /\ UNCHANGED <<dry_run, raw, uids, rngs, idx, mbox0, prev>>
    /\ UNCHANGED rgVars

\* Mutant: the error of expunge is dropped, the total is printed and the
\* function returns Ok.
ExpungeErrSwallowed ==
    /\ pc = "expunge"
    /\ cmds' = Append(cmds, Cmd("expunge", 0, 0, FALSE))
    /\ out' = Append(out, CountLine("deleted", Total(uids, rngs)))
    /\ pc' = "done"
    /\ UNCHANGED <<mailbox, dry_run, raw, uids, rngs, idx, mbox0, prev>>
    /\ UNCHANGED rgVars

\* session.expunge()? fails, the function returns the error. The server may
\* or may not have removed the marked messages before the failure reached
\* the client.
ExpungeErr ==
    /\ pc = "expunge"
    /\ cmds' = Append(cmds, Cmd("expunge", 0, 0, FALSE))
    /\ \E applied \in BOOLEAN :
         mailbox' = IF applied THEN Expunged(mailbox) ELSE mailbox
    /\ pc' = "failed"
    /\ UNCHANGED <<dry_run, raw, uids, rngs, idx, out, mbox0, prev>>
    /\ UNCHANGED rgVars

Next ==
    \/ \E d \in BOOLEAN : Start(d)
    \/ SelectOk
    \/ SelectErr
    \/ SearchOk
    \/ SearchErr
    \/ FetchOk
    \/ FetchErr
    \/ StoreOk
    \/ StoreErr
    \/ ExpungeOk
    \/ ExpungeErr

Spec == Init /\ [][Next]_vars

(* ------------------------------ claims ---------------------------------- *)

\* C1: for every sorted, distinct input S, the ranges returned by ranges(S)
\* exactly partition S: the values covered by the output ranges are exactly
\* the values of S, and no value is covered by two output ranges.
C1_Partition ==
    (rstate = "returned" /\ IsSortedDistinct(input)) =>
        /\ CoveredAll(output) = SeqRange(input)
        /\ \A i, j \in 1..Len(output) :
               i # j => Covered(output[i]) \cap Covered(output[j]) = {}

\* C1 witness: a sorted, distinct input with a gap has been compressed into
\* more than one range.
C1_Witness ==
    /\ rstate = "returned"
    /\ IsSortedDistinct(input)
    /\ Len(input) = 3
    /\ Len(output) = 2

\* C2: for every sorted, distinct input, every output range has start <= end,
\* and every range after the first starts strictly above the previous range's
\* end + 1 (so ranges ascend, each is a maximal run and their number is
\* minimal: every range is a run of consecutive values of the input).
C2_MaximalRuns ==
    (rstate = "returned" /\ IsSortedDistinct(input)) =>
        /\ \A i \in 1..Len(output) : output[i].start <= output[i].end
        /\ \A i \in 1..(Len(output) - 1) :
               output[i + 1].start > output[i].end + 1
        /\ \A i \in 1..Len(output) : Covered(output[i]) \subseteq SeqRange(input)

\* C2 witness: a sorted, distinct input holding a run of two consecutive
\* values and a separate value has been compressed.
C2_Witness ==
    /\ rstate = "returned"
    /\ IsSortedDistinct(input)
    /\ \E i \in 1..Len(output) : output[i].start < output[i].end
    /\ Len(output) >= 2

(* ----------------------- claims about the workflow --------------------- *)

InRun == pc # "idle"

Issued(c, op) == \E k \in 1..Len(c) : c[k].op = op

Failed(c, op) == \E k \in 1..Len(c) : c[k].op = op /\ ~c[k].ok

Succeeded(c, op) == \E k \in 1..Len(c) : c[k].op = op /\ c[k].ok

IsRangeCmd(c) == c.op \in {"fetch", "store"}

\* The ranges the per-range commands of a command log were issued for.
RangesOf(c) ==
    LET rc == SelectSeq(c, IsRangeCmd)
    IN [k \in 1..Len(rc) |-> [start |-> rc[k].lo, end |-> rc[k].hi]]

ExpectedStores(rs) ==
    [i \in 1..Len(rs) |-> Cmd("store", rs[i].start, rs[i].end, TRUE)]

\* The positions in mbox0 of the messages no longer in the mailbox.
Removed == {i \in 1..Len(mbox0) : mbox0[i].id \notin Ids(mailbox)}

\* C3: in a dry run no store and no expunge command is ever issued, whatever
\* the search result and whichever command fails, and the mailbox (messages
\* and deletion marks) stays as it was when the run began.
C3_DryRunReadOnly ==
    (InRun /\ dry_run) =>
        /\ ~Issued(cmds, "store")
        /\ ~Issued(cmds, "expunge")
        /\ mailbox = mbox0

\* C3 witness: a dry run over two ranges has returned Ok.
C3_Witness ==
    /\ dry_run
    /\ pc = "done"
    /\ Len(rngs) = 2
    /\ Len(cmds) = 4

\* C4: in a commit run in which no command fails, the commands after the
\* search are exactly one store per range of ranges(sorted search result), in
\* range order, followed by one expunge; and an expunge is only ever issued
\* after a successful store for every range.
C4_CommitCommands ==
    /\ (InRun /\ ~dry_run /\ pc = "done") =>
          /\ IsSortedDistinct(uids)
          /\ SeqRange(uids) = Matching(mbox0)
          /\ cmds = <<Cmd("select", 0, 0, TRUE), Cmd("search", 0, 0, TRUE)>>
                    \o ExpectedStores(ranges(uids))
                    \o <<Cmd("expunge", 0, 0, TRUE)>>
    /\ \A k \in 1..Len(cmds) :
          cmds[k].op = "expunge" =>
              /\ k = Len(cmds)
              /\ SubSeq(cmds, 3, k - 1) = ExpectedStores(ranges(uids))

\* C4 witness: a commit run over two ranges has returned Ok.
C4_Witness ==
    /\ ~dry_run
    /\ pc = "done"
    /\ Len(ranges(uids)) = 2
    /\ Len(cmds) = 5

\* C5: in a commit run, once a store command has failed the run has ended
\* with an error, no expunge is issued, no message has been removed, and the
\* messages of the ranges stored successfully before still carry \Deleted.
C5_MarkFailureAborts ==
    \A k \in 1..Len(cmds) :
        (cmds[k].op = "store" /\ ~cmds[k].ok) =>
            /\ pc = "failed"
            /\ k = Len(cmds)
            /\ ~Issued(cmds, "expunge")
            /\ Len(mailbox) = Len(mbox0)
            /\ \A i \in 1..Len(mbox0) : mailbox[i].id = mbox0[i].id
            /\ \A j \in 1..(k - 1) :
                   cmds[j].op = "store" =>
                       \A i \in cmds[j].lo..cmds[j].hi : mailbox[i].deleted

\* C5 witness: the store of the second range failed after the store of the
\* first range succeeded on a message that carried no \Deleted before.
C5_Witness ==
    /\ pc = "failed"
    /\ Len(cmds) = 4
    /\ cmds[3].op = "store" /\ cmds[3].ok
    /\ cmds[4].op = "store" /\ ~cmds[4].ok
    /\ ~mbox0[cmds[3].lo].deleted

\* C6: once select or search has failed, in either mode, the run has ended
\* with an error, the failed command is the last one issued (so no search
\* after a failed select, and no fetch, store or expunge), and the mailbox is
\* as it was when the run began.
C6_SelectSearchFailureAborts ==
    \A k \in 1..Len(cmds) :
        (cmds[k].op \in {"select", "search"} /\ ~cmds[k].ok) =>
            /\ pc = "failed"
            /\ k = Len(cmds)
            /\ (cmds[k].op = "select" => k = 1)
            /\ mailbox = mbox0

\* C6 witness: search failed on a mailbox that holds a candidate.
C6_Witness ==
    /\ pc = "failed"
    /\ Len(cmds) = 2
    /\ cmds[2].op = "search" /\ ~cmds[2].ok
    /\ Matching(mailbox) # {}

\* C7 (as claimed): in a dry run, once a fetch has failed, nothing has been
\* printed: no preview line of any range and no total.
C7_NoPartialPreview ==
    (InRun /\ dry_run /\ Failed(cmds, "fetch")) => out = <<>>

\* C8 (as claimed): a message carrying \Flagged is never removed by a run,
\* and every message removed was in the run's search result.
C8_OnlySearchResultRemoved ==
    InRun =>
        \A i \in Removed :
            /\ ~mbox0[i].flagged
            /\ i \in SeqRange(uids)

\* C8 (amended): only a commit run removes messages, and every message it
\* removes was in the run's search result (dated before the cutoff, not
\* \Flagged) or carried \Deleted when the run began; so a \Flagged message
\* that carried no \Deleted when the run began is not removed.
C8_RemovedWasMatchedOrMarked ==
    InRun =>
        \A i \in Removed :
            /\ ~dry_run
            /\ \/ i \in SeqRange(uids) /\ mbox0[i].old /\ ~mbox0[i].flagged
               \/ mbox0[i].deleted

\* C8 witness: a commit run removed a matched message and kept an old,
\* \Flagged one.
C8_Witness ==
    /\ ~dry_run
    /\ pc = "done"
    /\ Removed # {}
    /\ \E i \in 1..Len(mbox0) :
          /\ mbox0[i].old /\ mbox0[i].flagged
          /\ i \notin Removed

\* C9: in every successful run, in both modes, the total printed is the
\* number of identifiers of the search result, which is the sum of the sizes
\* of the ranges the per-range commands were issued for.
C9_CountIsIdentifiers ==
    (InRun /\ pc = "done") =>
        /\ out # <<>>
        /\ out[Len(out)].kind = (IF dry_run THEN "not deleted" ELSE "deleted")
        /\ out[Len(out)].n = Cardinality(Matching(mbox0))
        /\ out[Len(out)].n = SumSizes(RangesOf(cmds))

\* C9 witness: a successful run whose total differs from the number of
\* per-range commands it issued.
C9_Witness ==
    /\ pc = "done"
    /\ out # <<>>
    /\ out[Len(out)].n = 3
    /\ Len(RangesOf(cmds)) = 1

\* C10: a dry run that directly follows a dry run on the same mailbox finds
\* the same candidates; when both return Ok they fetched the same ranges and
\* printed the same total.
C10_DryRunRepeatable ==
    (InRun /\ dry_run /\ prev.mode = "dry") =>
        /\ (Succeeded(cmds, "search") /\ Succeeded(prev.cmds, "search")) =>
               uids = prev.uids
        /\ (pc = "done" /\ prev.result = "done") =>
               /\ RangesOf(cmds) = RangesOf(prev.cmds)
               /\ out[Len(out)] = prev.out[Len(prev.out)]

\* C10 witness: two dry runs in a row returned Ok, over a candidate that
\* carried \Deleted from the start.
C10_Witness ==
    /\ dry_run
    /\ prev.mode = "dry"
    /\ prev.result = "done"
    /\ pc = "done"
    /\ \E i \in SeqRange(uids) : mailbox[i].deleted

\* The candidates of a mailbox, from the attributes of its messages.
Candidates(mb) == {i \in 1..Len(mb) : mb[i].old /\ ~mb[i].flagged}

\* The mailbox one commit run without failure leaves: every candidate is
\* marked, then every marked message is removed.
AfterCommit(mb) ==
    Expunged([i \in 1..Len(mb) |->
                 IF i \in Candidates(mb) THEN [mb[i] EXCEPT !.deleted = TRUE]
                 ELSE mb[i]])

\* C11: after a commit run aborted by a failed store, the next run finds the
\* same candidates as the aborted run (marked messages still match the
\* search); storing \Deleted again leaves a marked message as it was; and when
\* the next run is a commit run that returns Ok, the mailbox is the one a
\* single commit run without failure would have left.
C11_RerunAfterAbort ==
    (InRun /\ prev.mode = "commit" /\ Failed(prev.cmds, "store")) =>
        /\ Succeeded(cmds, "search") =>
               /\ uids = prev.uids
               /\ SeqRange(uids) = Candidates(prev.mbox0)
        /\ ~Issued(cmds, "expunge") =>
               /\ Len(mailbox) = Len(mbox0)
               /\ \A i \in 1..Len(mbox0) :
                      mbox0[i].deleted => mailbox[i] = mbox0[i]
        /\ (~dry_run /\ pc = "done") => mailbox = AfterCommit(prev.mbox0)

\* C11 witness: the first commit run marked one range and failed on the
\* next; the second commit run stored both ranges again and returned Ok.
C11_Witness ==
    /\ prev.mode = "commit"
    /\ Len(prev.cmds) = 4
    /\ prev.cmds[3].op = "store" /\ prev.cmds[3].ok
    /\ prev.cmds[4].op = "store" /\ ~prev.cmds[4].ok
    /\ ~dry_run
    /\ pc = "done"
    /\ mbox0[uids[1]].deleted
    /\ Len(cmds) = 5

(* ----------------------- more claims about ranges ---------------------- *)

\* C12 (as claimed): for every ascending input that holds a duplicate, the
\* output ranges are pairwise non-overlapping, ascend by start, and cover
\* exactly the distinct values of the input.
C12_DuplicatesSafe ==
    (rstate = "returned" /\ IsAscending(input) /\ ~IsSortedDistinct(input)) =>
        /\ \A i, j \in 1..Len(output) :
               i # j => Covered(output[i]) \cap Covered(output[j]) = {}
        /\ \A i \in 1..(Len(output) - 1) : output[i].start < output[i + 1].start
        /\ CoveredAll(output) = SeqRange(input)

\* C13 (as claimed): for every input, sorted or not, `previous + 1` never
\* overflows and ranges returns a vector.
C13_TotalNoOverflow ==
    (rstate # "pending") => (rstate = "returned" /\ ~Overflows(input))

\* C18: for a sorted, distinct input, `previous + 1` is never evaluated on
\* the largest identifier, so ranges never panics, in either build; the key
\* of every element is Some, and the end of every range returned is an
\* element of the input (the last of a group that is not empty).
C18_NoOverflowWhenSorted ==
    IsSortedDistinct(input) =>
        /\ ~Overflows(input)
        /\ rstate # "panicked"
        /\ \A i \in 1..Len(input) : Keys(input)[i] # None
        /\ rstate = "returned" =>
               \A i \in 1..Len(output) :
                   /\ output[i].end \in SeqRange(input)
                   /\ output[i].start \in SeqRange(input)

\* C18 witness: a sorted, distinct input that ends in the largest identifier
\* has been compressed by a build that checks overflow.
C18_Witness ==
    /\ rstate = "returned"
    /\ overflow_checks
    /\ IsSortedDistinct(input)
    /\ Len(input) = MaxLen
    /\ input[Len(input)] = MaxUid

(* --------------------- more claims about the workflow ------------------ *)

AllOk(c) == \A k \in 1..Len(c) : c[k].ok

Min(a, b) == IF a <= b THEN a ELSE b

\* C14: no error is swallowed and nothing is retried: a run returns Ok
\* exactly when every command it issued succeeded; a failed command is the
\* last command of the run, the run then has returned the error and has
\* printed no total; a run that returned Ok has printed its total last.
C14_ErrorsPropagate ==
    InRun =>
        /\ pc = "done" => AllOk(cmds)
        /\ pc = "failed" => ~AllOk(cmds)
        /\ \A k \in 1..Len(cmds) :
               ~cmds[k].ok =>
                   /\ k = Len(cmds)
                   /\ pc = "failed"
                   /\ \A l \in 1..Len(out) : out[l].kind = "preview"
        /\ pc = "done" =>
               /\ out # <<>>
               /\ out[Len(out)].kind \in {"deleted", "not deleted"}

\* C14 witness: expunge failed after a successful store; the run returned
\* the error and printed nothing.
C14_Witness ==
    /\ ~dry_run
    /\ pc = "failed"
    /\ Len(cmds) = 4
    /\ cmds[3].op = "store"
    /\ cmds[4].op = "expunge" /\ ~cmds[4].ok
    /\ out = <<>>

\* C15: the commands of a run are, in order, a prefix of: one select, one
\* search, then fetches only (dry run) or stores followed by one expunge
\* (commit); no run issues a fetch and also a store or an expunge; a command
\* is only issued after every earlier command of the run has succeeded.
C15_CommandOrder ==
    InRun =>
        /\ \A k \in 1..Len(cmds) :
               /\ (k = 1) <=> (cmds[k].op = "select")
               /\ (k = 2) <=> (cmds[k].op = "search")
               /\ k >= 3 =>
                      IF dry_run THEN cmds[k].op = "fetch"
                      ELSE \/ cmds[k].op = "store"
                           \/ cmds[k].op = "expunge" /\ k = Len(cmds)
               /\ k < Len(cmds) => cmds[k].ok
        /\ ~(Issued(cmds, "fetch")
               /\ (Issued(cmds, "store") \/ Issued(cmds, "expunge")))

\* C15 witness: a commit run issued select, search, two stores and an
\* expunge, which failed.
C15_Witness ==
    /\ ~dry_run
    /\ pc = "failed"
    /\ Len(cmds) = 5
    /\ cmds[4].op = "store"
    /\ cmds[5].op = "expunge"

\* C16: the commands depend on the set of identifiers the search returned,
\* not on their order: uids is the ascending sequence of that set, and two
\* runs in the same mode whose search results hold the same identifiers
\* iterate over the same ranges, issue their per-range commands for the same
\* ranges in the same order and, when both return Ok, print the same total.
C16_OrderIndependent ==
    (InRun /\ Succeeded(cmds, "search")) =>
        /\ IsSortedDistinct(uids)
        /\ SeqRange(uids) = SeqRange(raw)
        /\ (/\ prev.mode = (IF dry_run THEN "dry" ELSE "commit")
            /\ Succeeded(prev.cmds, "search")
            /\ SeqRange(prev.raw) = SeqRange(raw)) =>
               /\ uids = prev.uids
               /\ rngs = prev.rngs
               /\ \A k \in 1..Min(Len(RangesOf(cmds)), Len(RangesOf(prev.cmds))) :
                      RangesOf(cmds)[k] = RangesOf(prev.cmds)[k]
               /\ (pc = "done" /\ prev.result = "done") =>
                      /\ RangesOf(cmds) = RangesOf(prev.cmds)
                      /\ out[Len(out)] = prev.out[Len(prev.out)]

\* C16 witness: two dry runs returned Ok whose search results were collected
\* in different orders, over two ranges.
C16_Witness ==
    /\ dry_run
    /\ prev.mode = "dry"
    /\ prev.result = "done"
    /\ pc = "done"
    /\ raw # prev.raw
    /\ SeqRange(raw) = SeqRange(prev.raw)
    /\ Len(RangesOf(cmds)) = 2

\* C17: in a commit run whose search result is empty no store is issued,
\* expunge is still issued, once, and a run that returns Ok has printed the
\* total 0 and has removed every message that carried \Deleted when the run
\* began.
C17_EmptyCommitStillExpunges ==
    (InRun /\ ~dry_run /\ Succeeded(cmds, "search") /\ uids = <<>>) =>
        /\ ~Issued(cmds, "store")
        /\ pc \in {"expunge", "done", "failed"}
        /\ pc # "expunge" =>
               /\ Len(cmds) = 3
               /\ cmds[3].op = "expunge"
        /\ pc = "done" =>
               /\ out = <<CountLine("deleted", 0)>>
               /\ Removed = {i \in 1..Len(mbox0) : mbox0[i].deleted}

\* C17 witness: a commit run that matched no message returned Ok and removed
\* a message.
C17_Witness ==
    /\ ~dry_run
    /\ pc = "done"
    /\ uids = <<>>
    /\ Removed # {}

====
